---- MODULE Spec2Model ----
(***************************************************************************)
(* Model of the Lox scanner of src/src/tokenizer/mod.rs.                   *)
(*                                                                         *)
(* tokenize(input) is a loop over a peekable character iterator.  The      *)
(* model keeps the iterator as the sequence of characters not yet          *)
(* consumed (chars), the line counter (line) and the output vector         *)
(* (tokens).  One action models one iteration of the main loop, i.e. one   *)
(* arm of the match on the character just read, together with the helper   *)
(* it calls; one more action models the push of EOF after the loop.        *)
(*                                                                         *)
(* A character is a one-character string; a text (String payload) is a     *)
(* sequence of characters.  A non-ASCII letter is written by its code      *)
(* point name.                                                             *)
(*                                                                         *)
(* main of src/src/main.rs is modelled around it: the arguments, the file  *)
(* that is read, the two output streams and the exit status.               *)
(***************************************************************************)
EXTENDS Naturals, Sequences, FiniteSets

VARIABLES input, chars, line, tokens, pc,
          args, file, stdout, stderr, return_code, printed, status

\* The state of main: its arguments, what reading the named file gives, the
\* lines written to the two streams, the local return_code, the number of
\* tokens the for loop has taken, and the exit status.
env == <<args, file, stdout, stderr, return_code, printed, status>>

vars == <<input, chars, line, tokens, pc, env>>

(***************************************************************************)
(* Bounds of the model.                                                    *)
(***************************************************************************)
\* Longest input text that is scanned.
MaxLen == 4

\* Longest text of the file that main reads.
MaxFileLen == 3

(***************************************************************************)
(* Character classes.                                                      *)
(***************************************************************************)
\* Option::None of peek()/peek_nth()/next().
None == "None"

\* char::is_digit(10): the ten ASCII digits.
Digits == {"0", "1", "2", "3", "4", "5", "6", "7", "8", "9"}

IsDigit(c) == c \in Digits

\* 'a'..='z' | 'A'..='Z' of the identifier arm.
AsciiLetters ==
    {"a", "b", "c", "d", "e", "f", "g", "h", "i", "j", "k", "l", "m",
     "n", "o", "p", "q", "r", "s", "t", "u", "v", "w", "x", "y", "z",
     "A", "B", "C", "D", "E", "F", "G", "H", "I", "J", "K", "L", "M",
     "N", "O", "P", "Q", "R", "S", "T", "U", "V", "W", "X", "Y", "Z"}

\* Letters outside ASCII (e acute), alphanumeric for char::is_alphanumeric.
NonAsciiLetters == {"U+00E9"}

\* char::is_alphanumeric, which is Unicode-aware.
IsAlphanumeric(c) == c \in AsciiLetters \cup Digits \cup NonAsciiLetters

\* The pattern 'a'..='z' | 'A'..='Z' | '_' that starts an identifier.
IsIdentifierStart(c) == c \in AsciiLetters \cup {"_"}

\* The condition under which tokenize_identifier keeps accumulating.
IsIdentifierPart(c) == IsAlphanumeric(c) \/ c = "_"

(***************************************************************************)
(* Tokens.                                                                 *)
(***************************************************************************)
Simple(kind) == [kind |-> kind]

Identifier(s) == [kind |-> "Identifier", text |-> s]

String(s) == [kind |-> "String", text |-> s]

Number(s) == [kind |-> "Number", text |-> s]

\* Token::Invalid(TokenizerError { line, message }).
Invalid(l, m) == [kind |-> "Invalid", line |-> l, message |-> m]

WhiteSpace == Simple("WhiteSpace")

EOF == Simple("EOF")

\* format!("Unexpected character: {}", c)
UnexpectedCharacter(c) == <<"Unexpected character: ", c>>

UnterminatedString == <<"Unterminated string.">>

RESERVED_KEYWORDS ==
    << [name |-> <<"v", "a", "r">>, token |-> Simple("Var")],
       [name |-> <<"a", "n", "d">>, token |-> Simple("And")],
       [name |-> <<"c", "l", "a", "s", "s">>, token |-> Simple("Class")],
       [name |-> <<"e", "l", "s", "e">>, token |-> Simple("Else")],
       [name |-> <<"f", "a", "l", "s", "e">>, token |-> Simple("False")],
       [name |-> <<"f", "o", "r">>, token |-> Simple("For")],
       [name |-> <<"f", "u", "n">>, token |-> Simple("Fun")],
       [name |-> <<"i", "f">>, token |-> Simple("If")],
       [name |-> <<"n", "i", "l">>, token |-> Simple("Nil")],
       [name |-> <<"o", "r">>, token |-> Simple("Or")],
       [name |-> <<"p", "r", "i", "n", "t">>, token |-> Simple("Print")],
       [name |-> <<"r", "e", "t", "u", "r", "n">>, token |-> Simple("Return")],
       [name |-> <<"s", "u", "p", "e", "r">>, token |-> Simple("Super")],
       [name |-> <<"t", "h", "i", "s">>, token |-> Simple("This")],
       [name |-> <<"t", "r", "u", "e">>, token |-> Simple("True")],
       [name |-> <<"w", "h", "i", "l", "e">>, token |-> Simple("While")] >>

\* The arms ';' '(' ')' '{' '}' '*' '.' ',' '+' '-'.
SingleCharToken ==
    [c \in {";", "(", ")", "{", "}", "*", ".", ",", "+", "-"} |->
        CASE c = ";" -> Simple("Semicolon")
          [] c = "(" -> Simple("LeftParen")
          [] c = ")" -> Simple("RightParen")
          [] c = "{" -> Simple("LeftBrace")
          [] c = "}" -> Simple("RightBrace")
          [] c = "*" -> Simple("Star")
          [] c = "." -> Simple("Dot")
          [] c = "," -> Simple("Comma")
          [] c = "+" -> Simple("Plus")
          [] c = "-" -> Simple("Minus")]

(***************************************************************************)
(* The peekmore iterator, seen as the sequence cs of characters not yet    *)
(* consumed.  The cursor of the iterator is never advanced by the scanner, *)
(* so peek() is the element at index 0 and peek_nth(n) the one at index n. *)
(***************************************************************************)
peek(cs) == IF cs = <<>> THEN None ELSE Head(cs)

peek_nth(cs, n) == IF Len(cs) > n THEN cs[n + 1] ELSE None

\* What a helper hands back: the token and the iterator after the helper.
Scanned(t, cs) == [token |-> t, rest |-> cs]

(***************************************************************************)
(* The arms '=' '!' '<' '>': peek, and take a following '='.               *)
(***************************************************************************)
\* PeekEqual without the chars.next() that takes the second character.
PeekEqual_NoNext(cs, double, single) ==
    IF peek(cs) # None /\ peek(cs) = "="
    THEN Scanned(Simple(double), cs)
    ELSE Scanned(Simple(single), cs)

PeekEqual(cs, double, single) ==
    IF peek(cs) # None
    THEN IF peek(cs) = "="
         THEN Scanned(Simple(double), Tail(cs))
         ELSE Scanned(Simple(single), cs)
    ELSE Scanned(Simple(single), cs)

(***************************************************************************)
(* The comment loop of the '/' arm: next() until a newline was read.       *)
(* Gives the iterator after the loop and how much line grew.               *)
(***************************************************************************)
\* SkipComment without the line += 1 at the newline that ends the comment.
RECURSIVE SkipComment_NoLine(_)
SkipComment_NoLine(cs) ==
    IF cs = <<>>
    THEN [rest |-> cs, lines |-> 0]
    ELSE IF Head(cs) = "\n"
         THEN [rest |-> Tail(cs), lines |-> 0]
         ELSE SkipComment_NoLine(Tail(cs))

RECURSIVE SkipComment(_)
SkipComment(cs) ==
    IF cs = <<>>
    THEN [rest |-> cs, lines |-> 0]
    ELSE IF Head(cs) = "\n"
         THEN [rest |-> Tail(cs), lines |-> 1]
         ELSE SkipComment(Tail(cs))

(***************************************************************************)
(* tokenize_number                                                         *)
(***************************************************************************)
\* Option::is_none without its test: every Option passes for Some.
is_none_Skipped(o) == FALSE

\* Option::is_none
is_none(o) == o = None

\* What tokenize_number hands back: the token and the iterator after it, or a
\* panic (Option::unwrap of None, a slice out of the text).
NumberDone(t, cs) == [token |-> t, rest |-> cs, panic |-> FALSE]

NumberPanic == [token |-> None, rest |-> <<>>, panic |-> TRUE]

\* The while loop: the text and the iterator at its break, or the panic of
\* next_2c.unwrap().
RECURSIVE NumberLoop(_, _, _)
NumberLoop(number, decimal, cs) ==
    IF peek(cs) = None
    THEN [number |-> number, rest |-> cs, panic |-> FALSE]
    ELSE LET c == peek(cs) IN
         IF IsDigit(c)
         THEN NumberLoop(Append(number, c), decimal, Tail(cs))
         ELSE IF c = "."
              THEN IF decimal
                   THEN [number |-> number, rest |-> cs, panic |-> FALSE]
                   ELSE LET next_2c == peek_nth(cs, 2) IN
                        IF is_none(next_2c)
                        THEN [number |-> number, rest |-> cs, panic |-> FALSE]
                        ELSE IF next_2c = None
                        THEN [number |-> number, rest |-> cs, panic |-> TRUE]
                        ELSE IF ~IsDigit(next_2c)
                        THEN [number |-> number, rest |-> cs, panic |-> FALSE]
                        ELSE NumberLoop(Append(number, c), TRUE, Tail(cs))
              ELSE [number |-> number, rest |-> cs, panic |-> FALSE]

\* tokenize_number without the push of '0' after a trailing dot.
tokenize_number_NoZero(first_char, cs) ==
    LET r == NumberLoop(<<first_char>>, FALSE, cs)
    IN IF r.panic THEN NumberPanic ELSE NumberDone(Number(r.number), r.rest)

\* &number[number.len() - 1..] is out of the text when the text is empty; the
\* text holds ASCII characters only, so every index is a character boundary.
tokenize_number(first_char, cs) ==
    LET r == NumberLoop(<<first_char>>, FALSE, cs) IN
    IF r.panic \/ Len(r.number) = 0
    THEN NumberPanic
    ELSE NumberDone(Number(IF r.number[Len(r.number)] = "."
                           THEN Append(r.number, "0")
                           ELSE r.number),
                    r.rest)

(***************************************************************************)
(* tokenize_string                                                         *)
(***************************************************************************)
\* StringLoop with the push before the test of the closing quote, so that the
\* quote becomes part of the text.
RECURSIVE StringLoop_PushQuote(_, _, _)
StringLoop_PushQuote(string, last_char, cs) ==
    IF cs = <<>>
    THEN [string |-> string, last_char |-> last_char, rest |-> cs]
    ELSE LET c == Head(cs) IN
         IF c = "\""
         THEN [string |-> Append(string, c), last_char |-> c, rest |-> Tail(cs)]
         ELSE StringLoop_PushQuote(Append(string, c), c, Tail(cs))

RECURSIVE StringLoop(_, _, _)
StringLoop(string, last_char, cs) ==
    IF cs = <<>>
    THEN [string |-> string, last_char |-> last_char, rest |-> cs]
    ELSE LET c == Head(cs) IN
         IF c = "\""
         THEN [string |-> string, last_char |-> c, rest |-> Tail(cs)]
         ELSE StringLoop(Append(string, c), c, Tail(cs))

\* tokenize_string for literals that may not span lines: the scan also stops
\* at a newline, which leaves the literal unterminated.
tokenize_string_OneLine(cs) ==
    LET nl == {i \in 1..Len(cs) : cs[i] = "\n"}
        qt == {i \in 1..Len(cs) : cs[i] = "\""}
        first(S) == CHOOSE i \in S : \A j \in S : i <= j
    IN IF nl # {} /\ (qt = {} \/ first(nl) < first(qt))
       THEN Scanned(Invalid(1, UnterminatedString),
                    SubSeq(cs, first(nl) + 1, Len(cs)))
       ELSE LET r == StringLoop(<<>>, "\"", cs) IN
            IF r.last_char # "\""
            THEN Scanned(Invalid(1, UnterminatedString), r.rest)
            ELSE Scanned(String(r.string), r.rest)

tokenize_string(cs) ==
    LET r == StringLoop(<<>>, "\"", cs) IN
    IF r.last_char # "\""
    THEN Scanned(Invalid(1, UnterminatedString), r.rest)
    ELSE Scanned(String(r.string), r.rest)

(***************************************************************************)
(* tokenize_identifier                                                     *)
(***************************************************************************)
RECURSIVE IdentifierLoop(_, _)
IdentifierLoop(identifier, cs) ==
    IF peek(cs) # None /\ IsIdentifierPart(peek(cs))
    THEN IdentifierLoop(Append(identifier, peek(cs)), Tail(cs))
    ELSE [identifier |-> identifier, rest |-> cs]

\* The for loop over RESERVED_KEYWORDS, from entry i on.
RECURSIVE KeywordLookup(_, _)
KeywordLookup(identifier, i) ==
    IF i > Len(RESERVED_KEYWORDS)
    THEN Identifier(identifier)
    ELSE IF RESERVED_KEYWORDS[i].name = identifier
         THEN RESERVED_KEYWORDS[i].token
         ELSE KeywordLookup(identifier, i + 1)

\* tokenize_identifier with a keyword test that accepts a keyword followed by
\* more characters (starts_with instead of ==).
tokenize_identifier_Prefix(first_char, cs) ==
    LET r == IdentifierLoop(<<first_char>>, cs)
        hits == {i \in 1..Len(RESERVED_KEYWORDS) :
                    /\ Len(RESERVED_KEYWORDS[i].name) <= Len(r.identifier)
                    /\ SubSeq(r.identifier, 1, Len(RESERVED_KEYWORDS[i].name))
                          = RESERVED_KEYWORDS[i].name}
    IN IF hits = {}
       THEN Scanned(Identifier(r.identifier), r.rest)
       ELSE Scanned(RESERVED_KEYWORDS[CHOOSE i \in hits : TRUE].token, r.rest)

tokenize_identifier(first_char, cs) ==
    LET r == IdentifierLoop(<<first_char>>, cs) IN
    Scanned(KeywordLookup(r.identifier, 1), r.rest)

(***************************************************************************)
(* Inputs: every text of at most MaxLen characters over one of these       *)
(* alphabets.                                                              *)
(***************************************************************************)
BlankChars == {" ", "\t", "\n", "/", "$", "#", "+"}

StringChars == {"\"", "\n", "/", "$", "a", "1"}

NumberChars == {"1", "5", ".", "x", "+", "\n"}

OperatorChars == {"=", "!", "<", ">", "a", "/"}

WordChars == {"o", "r", "O", "_", "1", "U+00E9"}

PunctChars == {";", "(", ")", "{", "}", "*", ",", "-"}

Alphabets ==
    {BlankChars, StringChars, NumberChars, OperatorChars, WordChars, PunctChars}

TextsOver(A) == UNION {[1..n -> A] : n \in 0..MaxLen}

\* The upper-case form of the first letters of the reserved words.
Capital ==
    [c \in {"a", "c", "e", "f", "i", "n", "o", "p", "r", "s", "t", "v", "w"} |->
        CASE c = "a" -> "A" [] c = "c" -> "C" [] c = "e" -> "E"
          [] c = "f" -> "F" [] c = "i" -> "I" [] c = "n" -> "N"
          [] c = "o" -> "O" [] c = "p" -> "P" [] c = "r" -> "R"
          [] c = "s" -> "S" [] c = "t" -> "T" [] c = "v" -> "V"
          [] c = "w" -> "W"]

\* Every reserved word w, and the texts "ws", "Ww", "_w" and "Ww w".
KeywordTexts ==
    UNION {{w, Append(w, "s"), <<Capital[Head(w)]>> \o Tail(w), <<"_">> \o w,
            <<Capital[Head(w)]>> \o Tail(w) \o <<" ">> \o w} :
              w \in {RESERVED_KEYWORDS[i].name : i \in 1..Len(RESERVED_KEYWORDS)}}

Inputs == UNION {TextsOver(A) : A \in Alphabets} \cup KeywordTexts

(***************************************************************************)
(* tokenize                                                                *)
(***************************************************************************)
\* main is not running: tokenize is called on its own.
NoMain ==
    /\ args = <<>>
    /\ file = [ok |-> FALSE]
    /\ stdout = <<>>
    /\ stderr = <<>>
    /\ return_code = 0
    /\ printed = 0
    /\ status = None

Init ==
    /\ input \in Inputs
    /\ chars = input
    /\ line = 1
    /\ tokens = <<>>
    /\ pc = "loop"
    /\ NoMain

\* while let Some(c) = chars.next(): c is Head(chars), the iterator is then
\* Tail(chars).
Reading == pc = "loop" /\ chars # <<>>

\* tokens.push(token), with the iterator and line as the arm left them.
Push(t, cs, l) ==
    /\ tokens' = Append(tokens, t)
    /\ chars' = cs
    /\ line' = l
    /\ UNCHANGED <<input, pc, env>>

ArmBlank ==
    /\ Reading
    /\ Head(chars) \in {" ", "\t"}
    /\ Push(WhiteSpace, Tail(chars), line)

ArmEqual ==
    /\ Reading
    /\ Head(chars) = "="
    /\ LET r == PeekEqual(Tail(chars), "EqualEqual", "Equal")
       IN Push(r.token, r.rest, line)

ArmSingle ==
    /\ Reading
    /\ Head(chars) \in DOMAIN SingleCharToken
    /\ Push(SingleCharToken[Head(chars)], Tail(chars), line)

ArmSlash ==
    /\ Reading
    /\ Head(chars) = "/"
    /\ LET cs == Tail(chars) IN
       IF peek(cs) # None
       THEN IF peek(cs) = "/"
            THEN LET r == SkipComment(cs)
                 IN Push(WhiteSpace, r.rest, line + r.lines)
            ELSE Push(Simple("Slash"), cs, line)
       ELSE Push(Simple("Slash"), cs, line)

ArmBang ==
    /\ Reading
    /\ Head(chars) = "!"
    /\ LET r == PeekEqual(Tail(chars), "BangEqual", "Bang")
       IN Push(r.token, r.rest, line)

ArmLess ==
    /\ Reading
    /\ Head(chars) = "<"
    /\ LET r == PeekEqual(Tail(chars), "LessEqual", "Less")
       IN Push(r.token, r.rest, line)

ArmGreater ==
    /\ Reading
    /\ Head(chars) = ">"
    /\ LET r == PeekEqual(Tail(chars), "GreaterEqual", "Greater")
       IN Push(r.token, r.rest, line)

ArmDigit ==
    /\ Reading
    /\ IsDigit(Head(chars))
    /\ LET r == tokenize_number(Head(chars), Tail(chars)) IN
       IF r.panic
       THEN pc' = "panic" /\ UNCHANGED <<input, chars, line, tokens, env>>
       ELSE Push(r.token, r.rest, line)

ArmQuote ==
    /\ Reading
    /\ Head(chars) = "\""
    /\ LET r == tokenize_string(Tail(chars))
       IN Push(r.token, r.rest, line)

ArmLetter ==
    /\ Reading
    /\ IsIdentifierStart(Head(chars))
    /\ LET r == tokenize_identifier(Head(chars), Tail(chars))
       IN Push(r.token, r.rest, line)

ArmNewline ==
    /\ Reading
    /\ Head(chars) = "\n"
    /\ Push(WhiteSpace, Tail(chars), line + 1)

\* The characters some arm before the wildcard arm matches.
Matched(c) ==
    \/ c \in {" ", "\t", "\n", "=", "/", "!", "<", ">", "\""}
    \/ c \in DOMAIN SingleCharToken
    \/ IsDigit(c)
    \/ IsIdentifierStart(c)

\* ArmOther with a recovery that also drops the character after the bad one.
ArmOther_SkipTwo ==
    /\ Reading
    /\ ~Matched(Head(chars))
    /\ Push(Invalid(line, UnexpectedCharacter(Head(chars))),
            IF Tail(chars) = <<>> THEN <<>> ELSE Tail(Tail(chars)), line)

ArmOther ==
    /\ Reading
    /\ ~Matched(Head(chars))
    /\ Push(Invalid(line, UnexpectedCharacter(Head(chars))), Tail(chars), line)

\* Return without the push of EOF.
Return_NoEof ==
    /\ pc = "loop"
    /\ chars = <<>>
    /\ pc' = "done"
    /\ UNCHANGED <<input, chars, line, tokens, env>>

\* The loop has ended: tokens.push(Token::EOF) and return.
Return ==
    /\ pc = "loop"
    /\ chars = <<>>
    /\ tokens' = Append(tokens, EOF)
    /\ pc' = "done"
    /\ UNCHANGED <<input, chars, line, env>>

Next ==
    \/ ArmBlank
    \/ ArmEqual
    \/ ArmSingle
    \/ ArmSlash
    \/ ArmBang
    \/ ArmLess
    \/ ArmGreater
    \/ ArmDigit
    \/ ArmQuote
    \/ ArmLetter
    \/ ArmNewline
    \/ ArmOther
    \/ Return

Spec == Init /\ [][Next]_vars

\* tokenize is one synchronous call on one thread: it keeps running until it
\* returns or panics.
FairSpec == Spec /\ WF_vars(Next)

(***************************************************************************)
(* impl Display for Token.  A line is a sequence of pieces: literal parts  *)
(* of the format string, and the characters of the payload.                *)
(***************************************************************************)
SimpleLines ==
    [k \in {"WhiteSpace", "And", "Class", "Else", "False", "For", "Fun", "If",
            "Nil", "Or", "Print", "Return", "Super", "This", "True", "While",
            "Var", "Equal", "EqualEqual", "Semicolon", "LeftParen",
            "RightParen", "LeftBrace", "RightBrace", "Star", "Dot", "Comma",
            "Plus", "Minus", "Slash", "EOF", "Bang", "BangEqual", "Less",
            "LessEqual", "Greater", "GreaterEqual"} |->
        CASE k = "WhiteSpace" -> ""
          [] k = "And" -> "AND and null"
          [] k = "Class" -> "CLASS class null"
          [] k = "Else" -> "ELSE else null"
          [] k = "False" -> "FALSE false null"
          [] k = "For" -> "FOR for null"
          [] k = "Fun" -> "FUN fun null"
          [] k = "If" -> "IF if null"
          [] k = "Nil" -> "NIL nil null"
          [] k = "Or" -> "OR or null"
          [] k = "Print" -> "PRINT print null"
          [] k = "Return" -> "RETURN return null"
          [] k = "Super" -> "SUPER super null"
          [] k = "This" -> "THIS this null"
          [] k = "True" -> "TRUE true null"
          [] k = "While" -> "WHILE while null"
          [] k = "Var" -> "VAR var null"
          [] k = "Equal" -> "EQUAL = null"
          [] k = "EqualEqual" -> "EQUAL_EQUAL == null"
          [] k = "Semicolon" -> "SEMICOLON ; null"
          [] k = "LeftParen" -> "LEFT_PAREN ( null"
          [] k = "RightParen" -> "RIGHT_PAREN ) null"
          [] k = "LeftBrace" -> "LEFT_BRACE { null"
          [] k = "RightBrace" -> "RIGHT_BRACE } null"
          [] k = "Star" -> "STAR * null"
          [] k = "Dot" -> "DOT . null"
          [] k = "Comma" -> "COMMA , null"
          [] k = "Plus" -> "PLUS + null"
          [] k = "Minus" -> "MINUS - null"
          [] k = "Slash" -> "SLASH / null"
          [] k = "EOF" -> "EOF  null"
          [] k = "Bang" -> "BANG ! null"
          [] k = "BangEqual" -> "BANG_EQUAL != null"
          [] k = "Less" -> "LESS < null"
          [] k = "LessEqual" -> "LESS_EQUAL <= null"
          [] k = "Greater" -> "GREATER > null"
          [] k = "GreaterEqual" -> "GREATER_EQUAL >= null"]

\* Digits without their leading zeros (one digit at least is kept).
RECURSIVE StripLeadingZeros(_)
StripLeadingZeros(ds) ==
    IF Len(ds) > 1 /\ Head(ds) = "0" THEN StripLeadingZeros(Tail(ds)) ELSE ds

\* Digits without their trailing zeros; "0" when nothing is left.
RECURSIVE StripTrailingZeros(_)
StripTrailingZeros(ds) ==
    IF ds = <<>>
    THEN <<"0">>
    ELSE IF ds[Len(ds)] = "0"
         THEN StripTrailingZeros(SubSeq(ds, 1, Len(ds) - 1))
         ELSE ds

\* format!("{:?}", s.parse::<f64>()) for a text digits[.digits] of the scanner,
\* which always parses.  With as few digits as the bounded texts have the
\* value is printed in positional notation, digit for digit: the integer part
\* without leading zeros, the fraction without trailing zeros, ".0" when
\* there is no fraction.
F64Debug(s) ==
    LET dots == {i \in 1..Len(s) : s[i] = "."}
        dot == IF dots = {} THEN Len(s) + 1 ELSE CHOOSE i \in dots : TRUE
    IN StripLeadingZeros(SubSeq(s, 1, dot - 1)) \o <<".">>
         \o StripTrailingZeros(SubSeq(s, dot + 1, Len(s)))

\* "[line {}] Error: {}"
ErrorLine(e) == <<"[line ", e.line, "] Error: ">> \o e.message

Display(t) ==
    CASE t.kind = "Identifier" -> <<"IDENTIFIER ">> \o t.text \o <<" null">>
      [] t.kind = "String" ->
            <<"STRING \"">> \o t.text \o <<"\" ">> \o t.text
      [] t.kind = "Number" ->
            <<"NUMBER ">> \o t.text \o <<" ">> \o F64Debug(t.text)
      [] t.kind = "Invalid" -> ErrorLine(t)
      [] OTHER -> <<SimpleLines[t.kind]>>

(***************************************************************************)
(* main                                                                    *)
(***************************************************************************)
\* env::args(): the program name, then the arguments of the command line.
ArgLists ==
    { <<"lox", "tokenize">>,
      <<"lox", "tokenize", "test.lox">>,
      <<"lox", "parse", "test.lox">> }

FileTextsOver(A) == UNION {[1..n -> A] : n \in 0..MaxFileLen}

\* What fs::read_to_string(filename) gives: Ok(text) or Err.
Files ==
    {[ok |-> TRUE, contents |-> t] :
        t \in UNION {FileTextsOver(A) : A \in Alphabets} \cup KeywordTexts}
    \cup {[ok |-> FALSE]}

MainInit ==
    /\ args \in ArgLists
    /\ file \in Files
    /\ stdout = <<>>
    /\ stderr = <<>>
    /\ return_code = 0
    /\ printed = 0
    /\ status = None
    /\ input = <<>>
    /\ chars = <<>>
    /\ line = 1
    /\ tokens = <<>>
    /\ pc = "main"

\* return ExitCode::from(code), after one line on standard error.
ExitWith(code, message) ==
    /\ stderr' = Append(stderr, message)
    /\ status' = code
    /\ pc' = "exit"
    /\ UNCHANGED <<input, chars, line, tokens, args, file, stdout,
                   return_code, printed>>

\* let tokens = tokenizer::tokenize(&file_contents): the call starts.
CallTokenize(file_contents) ==
    /\ input' = file_contents
    /\ chars' = file_contents
    /\ line' = 1
    /\ tokens' = <<>>
    /\ return_code' = 0
    /\ pc' = "loop"

MainUsage ==
    /\ pc = "main"
    /\ Len(args) < 3
    /\ ExitWith(1, <<"Usage: ", args[1], " tokenize <filename>">>)

MainUnknown ==
    /\ pc = "main"
    /\ Len(args) >= 3
    /\ args[2] # "tokenize"
    /\ ExitWith(1, <<"Unknown command: ", args[2]>>)

\* The "tokenize" arm, the file read.
MainRead ==
    /\ pc = "main"
    /\ Len(args) >= 3
    /\ args[2] = "tokenize"
    /\ file.ok
    /\ CallTokenize(file.contents)
    /\ UNCHANGED <<args, file, stdout, stderr, printed, status>>

\* MainReadFailed that gives up with a status of its own.
MainReadFailed_Exit ==
    /\ pc = "main"
    /\ Len(args) >= 3
    /\ args[2] = "tokenize"
    /\ ~file.ok
    /\ ExitWith(1, <<"Failed to read file ", args[3]>>)

\* The "tokenize" arm, the closure of unwrap_or_else: the file is not read.
MainReadFailed ==
    /\ pc = "main"
    /\ Len(args) >= 3
    /\ args[2] = "tokenize"
    /\ ~file.ok
    /\ stderr' = Append(stderr, <<"Failed to read file ", args[3]>>)
    /\ CallTokenize(<<>>)
    /\ UNCHANGED <<args, file, stdout, printed, status>>

\* for token in tokens: the next token, if any.
Printing == pc = "done" /\ printed < Len(tokens)

\* MainPrintInvalid without return_code = 65.
MainPrintInvalid_NoCode ==
    /\ Printing
    /\ tokens[printed + 1].kind = "Invalid"
    /\ stderr' = Append(stderr, ErrorLine(tokens[printed + 1]))
    /\ printed' = printed + 1
    /\ UNCHANGED <<input, chars, line, tokens, pc, args, file, stdout,
                   return_code, status>>

MainPrintInvalid ==
    /\ Printing
    /\ tokens[printed + 1].kind = "Invalid"
    /\ stderr' = Append(stderr, ErrorLine(tokens[printed + 1]))
    /\ return_code' = 65
    /\ printed' = printed + 1
    /\ UNCHANGED <<input, chars, line, tokens, pc, args, file, stdout, status>>

MainPrintToken ==
    /\ Printing
    /\ tokens[printed + 1].kind # "Invalid"
    /\ stdout' = Append(stdout, Display(tokens[printed + 1]))
    /\ printed' = printed + 1
    /\ UNCHANGED <<input, chars, line, tokens, pc, args, file, stderr,
                   return_code, status>>

\* return ExitCode::from(return_code)
MainExit ==
    /\ pc = "done"
    /\ printed = Len(tokens)
    /\ status' = return_code
    /\ pc' = "exit"
    /\ UNCHANGED <<input, chars, line, tokens, args, file, stdout, stderr,
                   return_code, printed>>

MainNext ==
    \/ MainUsage
    \/ MainUnknown
    \/ MainRead
    \/ MainReadFailed
    \/ Next
    \/ MainPrintInvalid
    \/ MainPrintToken
    \/ MainExit

MainSpec == MainInit /\ [][MainNext]_vars

(***************************************************************************)
(* Vocabulary of the properties.                                           *)
(***************************************************************************)
\* The sequence tokenize has returned.
Returned == pc = "done"

Last(s) == s[Len(s)]

\* Number of characters the iterator has yielded so far.
Consumed == Len(input) - Len(chars)

\* Number of newline characters among the first k characters of the input.
NewlinesIn(k) == Cardinality({i \in 1..k : input[i] = "\n"})

\* The step pushed exactly one token, kept the earlier ones, and went on
\* scanning.
PushedOne ==
    /\ Len(tokens') = Len(tokens) + 1
    /\ SubSeq(tokens', 1, Len(tokens)) = tokens
    /\ pc' = "loop"

Drop(cs, n) == SubSeq(cs, n + 1, Len(cs))

(***************************************************************************)
(* C1: for every input, the empty one included, the sequence tokenize      *)
(* returns is non-empty, its last element is EOF, and EOF occurs at no     *)
(* earlier position (nor in the vector while the loop still runs).         *)
(***************************************************************************)
C1_EofExactlyLast ==
    /\ Returned =>
          /\ tokens # <<>>
          /\ Last(tokens) = EOF
          /\ \A i \in 1..(Len(tokens) - 1) : tokens[i] # EOF
    /\ ~Returned => \A i \in 1..Len(tokens) : tokens[i] # EOF

\* tokenize has returned on a non-empty input, with tokens before the EOF.
C1_Witness ==
    /\ Returned
    /\ input # <<>>
    /\ Len(tokens) >= 3
    /\ Last(tokens) = EOF

(***************************************************************************)
(* C2: skipped characters contribute no element: a text of spaces, tabs    *)
(* and newlines only returns <<EOF>>, and no blank (WhiteSpace) element is *)
(* ever in the returned sequence.                                          *)
(***************************************************************************)
C2_NoBlankElement ==
    Returned =>
       /\ (\A i \in 1..Len(input) : input[i] \in {" ", "\t", "\n"})
              => tokens = <<EOF>>
       /\ \A i \in 1..Len(tokens) : tokens[i] # WhiteSpace

(***************************************************************************)
(* C3: when the loop reads an opening quote and no closing quote follows   *)
(* before the end of the input (the quote being the last character         *)
(* included), the step pushes one Invalid token with the message           *)
(* "Unterminated string." and no String token.                             *)
(***************************************************************************)
\* The character read starts a string literal.
AtQuote == Reading /\ Head(chars) = "\""

\* No closing quote follows the opening quote just read.
Unclosed == \A i \in 2..Len(chars) : chars[i] # "\""

IsUnterminatedError(t) ==
    t.kind = "Invalid" /\ t.message = UnterminatedString

\* C3: an opening quote that is never closed gives the error, not a String.
C3_UnterminatedIsError ==
    [][(AtQuote /\ Unclosed) =>
          /\ PushedOne
          /\ Last(tokens').kind # "String"
          /\ IsUnterminatedError(Last(tokens'))]_vars

(***************************************************************************)
(* C4: the line of an "Unterminated string." error is the line of the      *)
(* opening quote: 1 plus the number of newlines before that quote.         *)
(***************************************************************************)
C4_UnterminatedLine ==
    [][(AtQuote /\ PushedOne /\ IsUnterminatedError(Last(tokens'))) =>
          Last(tokens').line = 1 + NewlinesIn(Consumed)]_vars

(***************************************************************************)
(* C5: a maximal digit run at a token start, followed by '.' and a digit,  *)
(* gives one Number token whose text is the run, the dot and the maximal   *)
(* digit run after the dot; all of it is consumed.                         *)
(***************************************************************************)
\* Length of the maximal run of digits at the head of cs.
DigitRun(cs) ==
    CHOOSE n \in 0..Len(cs) :
        /\ \A i \in 1..n : cs[i] \in Digits
        /\ n < Len(cs) => cs[n + 1] \notin Digits

AtDigit == Reading /\ Head(chars) \in Digits

\* The digit run at the head of chars is followed by a dot.
DotAfterRun ==
    LET n == DigitRun(chars) IN n < Len(chars) /\ chars[n + 1] = "."

\* That dot is followed by a digit.
DigitAfterDot ==
    LET n == DigitRun(chars) IN n + 2 <= Len(chars) /\ chars[n + 2] \in Digits

\* C5: digits, a dot and a digit are scanned as one Number with its fraction.
C5_FractionConsumed ==
    [][(AtDigit /\ DotAfterRun /\ DigitAfterDot) =>
          LET n == DigitRun(chars)
              m == DigitRun(Drop(chars, n + 1))
          IN /\ PushedOne
             /\ Last(tokens') = Number(SubSeq(chars, 1, n + 1 + m))
             /\ chars' = Drop(chars, n + 1 + m)]_vars

(***************************************************************************)
(* C6: a digit run followed by a '.' that ends the input or is followed by *)
(* a non-digit gives a Number token whose text is the digit run alone; the *)
(* dot is left in the iterator, to be scanned next.                        *)
(***************************************************************************)
C6_BareDotLeft ==
    [][(AtDigit /\ DotAfterRun /\ ~DigitAfterDot) =>
          LET n == DigitRun(chars)
          IN /\ PushedOne
             /\ Last(tokens') = Number(SubSeq(chars, 1, n))
             /\ chars' = Drop(chars, n)
             /\ Head(chars') = "."]_vars

(***************************************************************************)
(* C7: an "Unexpected character" error carries the line 1 plus the number  *)
(* of newlines of the input before the bad character, wherever they were   *)
(* consumed (between tokens, ending a comment, inside a string).           *)
(***************************************************************************)
IsUnexpectedError(t) ==
    t.kind = "Invalid" /\ t.message[1] = "Unexpected character: "

\* C7: the line of an unexpected-character error counts every newline before
\* the bad character.  Right after the push of such an error the bad character
\* is the last one consumed.
C7_UnexpectedLine ==
    (tokens # <<>> /\ IsUnexpectedError(Last(tokens))) =>
        Last(tokens).line = 1 + NewlinesIn(Consumed - 1)

(***************************************************************************)
(* C8: single-character error recovery.  When the loop reads, at a token   *)
(* start, a character no rule matches, the step pushes exactly one Invalid *)
(* token with the message "Unexpected character: <c>", consumes exactly    *)
(* that character and goes on scanning at the next one.                    *)
(***************************************************************************)
\* The characters of the inputs that no rule of the scanner names.
UnmatchedChars == {"$", "#"}

\* C8: an unmatched character costs one Invalid token and one character.
C8_SingleCharRecovery ==
    [][(Reading /\ Head(chars) \in UnmatchedChars) =>
          /\ PushedOne
          /\ Last(tokens').kind = "Invalid"
          /\ Last(tokens').message = <<"Unexpected character: ", Head(chars)>>
          /\ chars' = Tail(chars)]_vars

\* "$+" has been scanned: the error, then Plus, then EOF.
C8_Witness ==
    /\ Returned
    /\ input = <<"$", "+">>
    /\ tokens = <<Invalid(1, <<"Unexpected character: ", "$">>),
                  Simple("Plus"), EOF>>

(***************************************************************************)
(* C9: greedy two-character operators.  For '=', '!', '<', '>' read at a   *)
(* token start: when the next character is '=' both are consumed and the   *)
(* one combined token is pushed; otherwise (another character, or the end  *)
(* of the input) the single-character token is pushed and the next         *)
(* character stays in the iterator.                                        *)
(***************************************************************************)
OperatorKinds ==
    [c \in {"=", "!", "<", ">"} |->
        CASE c = "=" -> [single |-> "Equal", double |-> "EqualEqual"]
          [] c = "!" -> [single |-> "Bang", double |-> "BangEqual"]
          [] c = "<" -> [single |-> "Less", double |-> "LessEqual"]
          [] c = ">" -> [single |-> "Greater", double |-> "GreaterEqual"]]

\* C9: an operator character takes a following '=' and nothing else.
C9_GreedyOperators ==
    [][(Reading /\ Head(chars) \in DOMAIN OperatorKinds) =>
          /\ PushedOne
          /\ IF Len(chars) >= 2 /\ chars[2] = "="
             THEN /\ Last(tokens') = Simple(OperatorKinds[Head(chars)].double)
                  /\ chars' = Drop(chars, 2)
             ELSE /\ Last(tokens') = Simple(OperatorKinds[Head(chars)].single)
                  /\ chars' = Drop(chars, 1)]_vars

\* "===" has been scanned: EqualEqual, then Equal, then EOF.
C9_Witness ==
    /\ Returned
    /\ input = <<"=", "=", "=">>
    /\ tokens = <<Simple("EqualEqual"), Simple("Equal"), EOF>>

(***************************************************************************)
(* C10: no Identifier token carries the text of one of the 16 reserved     *)
(* words.  A maximal run of letters, digits and '_' read at a token start  *)
(* that equals a reserved word gives the token of that word; any other     *)
(* run (a reserved word followed by more characters, or in another case)   *)
(* gives one Identifier whose text is the whole run.                       *)
(***************************************************************************)
ReservedWordKinds ==
    { <<"And", <<"a", "n", "d">> >>,
      <<"Class", <<"c", "l", "a", "s", "s">> >>,
      <<"Else", <<"e", "l", "s", "e">> >>,
      <<"False", <<"f", "a", "l", "s", "e">> >>,
      <<"For", <<"f", "o", "r">> >>,
      <<"Fun", <<"f", "u", "n">> >>,
      <<"If", <<"i", "f">> >>,
      <<"Nil", <<"n", "i", "l">> >>,
      <<"Or", <<"o", "r">> >>,
      <<"Print", <<"p", "r", "i", "n", "t">> >>,
      <<"Return", <<"r", "e", "t", "u", "r", "n">> >>,
      <<"Super", <<"s", "u", "p", "e", "r">> >>,
      <<"This", <<"t", "h", "i", "s">> >>,
      <<"True", <<"t", "r", "u", "e">> >>,
      <<"Var", <<"v", "a", "r">> >>,
      <<"While", <<"w", "h", "i", "l", "e">> >> }

ReservedWords == {p[2] : p \in ReservedWordKinds}

\* Length of the maximal run of letters, digits and '_' at the head of cs.
WordRun(cs) ==
    CHOOSE n \in 0..Len(cs) :
        /\ \A i \in 1..n : IsAlphanumeric(cs[i]) \/ cs[i] = "_"
        /\ n < Len(cs) => ~(IsAlphanumeric(cs[n + 1]) \/ cs[n + 1] = "_")

NoReservedIdentifier ==
    \A i \in 1..Len(tokens) :
        tokens[i].kind = "Identifier" => tokens[i].text \notin ReservedWords

WordStep ==
    (Reading /\ Head(chars) \in AsciiLetters \cup {"_"}) =>
        LET run == SubSeq(chars, 1, WordRun(chars)) IN
        /\ PushedOne
        /\ chars' = Drop(chars, Len(run))
        /\ IF run \in ReservedWords
           THEN Last(tokens') =
                  Simple((CHOOSE p \in ReservedWordKinds : p[2] = run)[1])
           ELSE Last(tokens') = Identifier(run)

\* C10: never an Identifier with a reserved text, and every word run is
\* classified by exact comparison of the whole run.
C10_ReservedWords == []NoReservedIdentifier /\ [][WordStep]_vars

\* "Or or" has been scanned: an Identifier, a blank, the reserved word.
C10_Witness ==
    /\ Returned
    /\ input = <<"O", "r", " ", "o", "r">>
    /\ tokens = <<Identifier(<<"O", "r">>), WhiteSpace, Simple("Or"), EOF>>

(***************************************************************************)
(* C11: the text of every Number token is non-empty, begins with a digit,  *)
(* holds at most one '.', and does not end with '.'.                       *)
(***************************************************************************)
C11_NumberText ==
    \A i \in 1..Len(tokens) :
        tokens[i].kind = "Number" =>
            LET t == tokens[i].text IN
            /\ t # <<>>
            /\ t[1] \in Digits
            /\ Cardinality({j \in 1..Len(t) : t[j] = "."}) <= 1
            /\ Last(t) # "."

\* "1..1" has been scanned: the first dot was taken into the number, which
\* was then completed with '0'.
C11_Witness ==
    /\ Returned
    /\ input = <<"1", ".", ".", "1">>
    /\ tokens[1] = Number(<<"1", ".", "0">>)

(***************************************************************************)
(* C12: '/' followed by '/' starts a line comment.  The step consumes the  *)
(* characters up to and including the next newline, or all the input when  *)
(* there is none; line grows by exactly one in the first case and not at   *)
(* all in the second; the step pushes no lexeme and no Invalid token,      *)
(* whatever the comment holds; scanning goes on at the character after the *)
(* newline.  '/' followed by anything else, or by nothing, pushes Slash    *)
(* and consumes only the '/'.                                              *)
(***************************************************************************)
AtSlash == Reading /\ Head(chars) = "/"

\* Positions of the newlines of the iterator.
NewlineAt == {i \in 1..Len(chars) : chars[i] = "\n"}

\* Position of the first newline of the iterator.
FirstNewline == CHOOSE i \in NewlineAt : \A j \in NewlineAt : i <= j

\* Every token the step pushed is the blank one.
PushedOnlyBlank ==
    /\ Len(tokens') >= Len(tokens)
    /\ SubSeq(tokens', 1, Len(tokens)) = tokens
    /\ \A i \in (Len(tokens) + 1)..Len(tokens') : tokens'[i] = WhiteSpace

CommentStep ==
    (AtSlash /\ Len(chars) >= 2 /\ chars[2] = "/") =>
        /\ PushedOnlyBlank
        /\ pc' = "loop"
        /\ IF NewlineAt # {}
           THEN chars' = Drop(chars, FirstNewline) /\ line' = line + 1
           ELSE chars' = <<>> /\ line' = line

SlashStep ==
    (AtSlash /\ ~(Len(chars) >= 2 /\ chars[2] = "/")) =>
        /\ PushedOne
        /\ Last(tokens') = Simple("Slash")
        /\ chars' = Tail(chars)
        /\ line' = line

\* C12: a line comment ends with its newline, counted once; a lone '/' is
\* Slash.
C12_LineComment == [][CommentStep /\ SlashStep]_vars

\* A comment holding a quote, '$' or a digit has been skipped with the newline
\* that ends it: line 2, and no String, Invalid or Number token.
C12_Witness ==
    /\ Returned
    /\ line = 2
    /\ Len(input) = 4
    /\ SubSeq(input, 1, 2) = <<"/", "/">>
    /\ input[3] \in {"\"", "$", "1"}
    /\ input[4] = "\n"
    /\ tokens = <<WhiteSpace, EOF>>

(***************************************************************************)
(* C13: tokenize terminates and returns for every input, and has no path   *)
(* that aborts: every iteration of the main loop consumes at least one     *)
(* character and leaves a suffix of the iterator (the cursor never moves   *)
(* backward), and neither the unwrap of the two-ahead lookahead nor the    *)
(* slice of the last character of the number text panics.                  *)
(***************************************************************************)
\* The iteration left a proper suffix of the iterator.
ConsumedSome == \E n \in 1..Len(chars) : chars' = Drop(chars, n)

\* C13: tokenize returns, never panics, and every iteration consumes input.
C13_Terminates ==
    /\ <>Returned
    /\ [](pc # "panic")
    /\ [][(pc = "loop" /\ pc' = "loop") => ConsumedSome]_vars

\* "1." has been scanned: the lookahead two past the dot was None, and the
\* last character of the text "1" was sliced.
C13_Witness ==
    /\ Returned
    /\ input = <<"1", ".">>
    /\ tokens = <<Number(<<"1">>), Simple("Dot"), EOF>>

(***************************************************************************)
(* C15: for a string literal that is closed, the step pushes exactly one   *)
(* String token whose text is the characters strictly between the opening  *)
(* quote and the first quote after it, in order and unchanged (it may be   *)
(* empty, and may hold newlines, slashes, digits or unmatched characters,  *)
(* none of which gives a token of its own); scanning goes on at the        *)
(* character after the closing quote.                                      *)
(***************************************************************************)
\* Positions of the quotes after the opening quote at the head of chars.
QuoteAt == {i \in 2..Len(chars) : chars[i] = "\""}

\* Position of the closing quote.
FirstQuote == CHOOSE i \in QuoteAt : \A j \in QuoteAt : i <= j

\* C15: a closed literal is one String with the text between its quotes.
C15_ClosedString ==
    [][(AtQuote /\ ~Unclosed) =>
          /\ PushedOne
          /\ Last(tokens') = String(SubSeq(chars, 2, FirstQuote - 1))
          /\ chars' = Drop(chars, FirstQuote)]_vars

\* A literal holding a newline and a '$' has been scanned as one String.
C15_Witness ==
    /\ Returned
    /\ input = <<"\"", "\n", "$", "\"">>
    /\ tokens = <<String(<<"\n", "$">>), EOF>>

(***************************************************************************)
(* C16: the first character of an identifier is classified like the        *)
(* following ones: any letter, ASCII or not, or '_' read at a token start  *)
(* begins an identifier that is the maximal run of letters, digits and '_' *)
(* from there and gives one Identifier or reserved-word token, never an    *)
(* "Unexpected character" error.                                           *)
(***************************************************************************)
Letters == AsciiLetters \cup NonAsciiLetters

UnterminatedAt ==
    {i \in 1..Len(tokens) : IsUnterminatedError(tokens[i])}

\* C17: at most one unterminated-string error, right before the final EOF.
C17_UnterminatedIsLast ==
    /\ Cardinality(UnterminatedAt) <= 1
    /\ \A i \in UnterminatedAt :
          /\ chars = <<>>
          /\ IF Returned
             THEN i = Len(tokens) - 1 /\ Last(tokens) = EOF
             ELSE i = Len(tokens)

\* A literal opened on line 2 and never closed: the error, then EOF.
C17_Witness ==
    /\ Returned
    /\ input = <<"a", "\n", "\"", "a">>
    /\ Len(tokens) = 4
    /\ IsUnterminatedError(tokens[3])
    /\ tokens[4] = EOF

(***************************************************************************)
(* C14: the tokenize command exits with status 65 if and only if tokenize  *)
(* returned at least one Invalid token, and with 0 otherwise; the Invalid  *)
(* tokens are written to standard error only, and every other token to     *)
(* standard output, in the order of the sequence; missing arguments and    *)
(* unknown commands exit with a status that is neither 0 nor 65.           *)
(***************************************************************************)
Exited == pc = "exit"

TokenizeCommand == Len(args) >= 3 /\ args[2] = "tokenize"

IsError(t) == t.kind = "Invalid"

IsNotError(t) == t.kind # "Invalid"

\* The lines of the tokens of ts, in order.
LinesOf(ts) == [i \in 1..Len(ts) |-> Display(ts[i])]

\* Standard error without the line of a failed read.
ErrorLines == IF file.ok THEN stderr ELSE Tail(stderr)

\* C14: status 65 exactly when an error was returned, errors on standard
\* error only, the other tokens on standard output in order.
C14_ExitStatus ==
    Exited =>
        IF TokenizeCommand
        THEN /\ status = IF \E i \in 1..Len(tokens) : IsError(tokens[i])
                         THEN 65 ELSE 0
             /\ stdout = LinesOf(SelectSeq(tokens, IsNotError))
             /\ ErrorLines = LinesOf(SelectSeq(tokens, IsError))
        ELSE status \notin {0, 65} /\ stdout = <<>>

\* "+$+" was tokenized: two PLUS lines and the EOF line on standard output,
\* the error on standard error, status 65.
C14_Witness ==
    /\ Exited
    /\ TokenizeCommand
    /\ input = <<"+", "$", "+">>
    /\ status = 65
    /\ stdout = << <<"PLUS + null">>, <<"PLUS + null">>, <<"EOF  null">> >>
    /\ stderr = << <<"[line ", 1, "] Error: ", "Unexpected character: ", "$">> >>

(***************************************************************************)
(* C18: when the named file cannot be read, the tokenize command reports   *)
(* the failure on standard error and then behaves as for an empty source:  *)
(* it prints only the end-of-input line and exits with status 0.           *)
(***************************************************************************)
ReadFailed == TokenizeCommand /\ ~file.ok

\* C18: a failed read is reported, then handled as an empty source: status 0.
C18_ReadFailureExitsZero ==
    /\ (ReadFailed /\ pc # "main") =>
          /\ input = <<>>
          /\ stderr = << <<"Failed to read file ", args[3]>> >>
    /\ (ReadFailed /\ Exited) =>
          /\ status = 0
          /\ stdout = << <<"EOF  null">> >>

\* The command has exited after a failed read.
C18_Witness ==
    /\ ReadFailed
    /\ Exited
    /\ status = 0
    /\ Len(stderr) = 1

====
